---- MODULE Spec2Model ----
(***************************************************************************)
(* Model of print_Multi_Format.py: a sequential command-line program that *)
(* validates each path of argv and prints it through one of three         *)
(* adapters (Excel, Word, PDF), forcing the default printer's orientation *)
(* first.  Every call into an external collaborator (COM, fitz,           *)
(* win32print, win32api) is one step that either succeeds or raises.      *)
(* Calls that release a resource (Close, Quit, ClosePrinter, doc.close)   *)
(* are taken to succeed.  Path strings are sequences of one-character     *)
(* strings.  trace holds the external calls made for the path main is at. *)
(***************************************************************************)
EXTENDS Integers, Sequences, FiniteSets, TLC

VARIABLES
    platform,   \* sys.platform
    args,       \* sys.argv[1:]
    fs,         \* what each path of argv is on disk
    pc,         \* the statement the program is at
    i,          \* position of the for loop of main in argv (1-based)
    adapter,    \* the adapter print_file called, "none" outside one
    open,       \* the resources that are open: applications, documents, handles
    page,       \* print_pdf: page.rect of the first page
    word_orient, \* print_word: doc.PageSetup.Orientation as read
    orient,     \* the adapter's orientation local (orient / printer_orient / orientation)
    raising,    \* an exception is propagating
    ret,        \* the values print_file returned, in call order
    printer,    \* the default printer's stored device mode
    trace,      \* the external calls made for the path being processed
    log,        \* the records written to the log
    processed   \* the argv positions validate_file_path was called for, in order

vars == <<platform, args, fs, pc, i, adapter, open, page, word_orient, orient,
          raising, ret, printer, trace, log, processed>>

\* ---------------------------------------------------------------- bounds
MaxArgs == 2
MaxDim == 2

\* ------------------------------------------------------------- constants
DM_ORIENTATION == 1
DM_PAPERSIZE == 2
DMORIENT_PORTRAIT == 1
DMORIENT_LANDSCAPE == 2

SUPPORTED_EXTENSIONS ==
    << <<".", "d", "o", "c", "x">>, <<".", "d", "o", "c">>,
       <<".", "x", "l", "s", "x">>, <<".", "x", "l", "s">>,
       <<".", "p", "d", "f">> >>

\* ------------------------------------------------------------ the inputs
\* the command-line paths the model draws argv from
PathNames ==
    { <<"a", ".", "p", "d", "f">>,
      <<".", "p", "d", "f">>,
      <<"A", ".", "D", "O", "C", "X">>,
      <<"b", ".", "x", "l", "s">>,
      <<"c", ".", "t", "x", "t">>,
      <<"p", "d", "f">> }

\* what a path is on disk
FileKinds == {"missing", "dir", "file"}

Platforms == {"win32", "linux"}

\* values doc.PageSetup.Orientation may hold (0 portrait, 1 landscape, other)
WordOrientValues == {0, 1, 2}

\* values ws.PageSetup.Orientation may hold (1 portrait, 2 landscape)
ExcelOrientValues == {1, 2}

Range(s) == {s[k] : k \in 1..Len(s)}

ArgLists == UNION {[1..n -> PathNames] : n \in 0..MaxArgs}

\* ------------------------------------------------------ string functions
Lower(c) ==
    CASE c = "A" -> "a" [] c = "C" -> "c" [] c = "D" -> "d" [] c = "F" -> "f"
      [] c = "L" -> "l" [] c = "O" -> "o" [] c = "P" -> "p" [] c = "S" -> "s"
      [] c = "T" -> "t" [] c = "X" -> "x"
      [] OTHER -> c

LowerStr(s) == [k \in 1..Len(s) |-> Lower(s[k])]

EndsWith(s, suf) ==
    /\ Len(s) >= Len(suf)
    /\ SubSeq(s, Len(s) - Len(suf) + 1, Len(s)) = suf

\* str.endswith with a tuple of suffixes
EndsWithAny(s, sufs) == \E k \in 1..Len(sufs) : EndsWith(s, sufs[k])

SetMax(S) == CHOOSE m \in S : \A n \in S : n <= m

\* str.rfind, 1-based; 0 when the character does not occur
RFind(s, c) == SetMax({0} \cup {k \in 1..Len(s) : s[k] = c})

\* os.path.splitext on Windows (ntpath): the extension starts at the last
\* dot after the last separator, and leading dots of the file name do not
\* start an extension
Splitext(p) ==
    LET sepIndex == SetMax({RFind(p, "\\"), RFind(p, "/")})
        dotIndex == RFind(p, ".")
    IN  IF /\ dotIndex > sepIndex
           /\ \E k \in (sepIndex + 1)..(dotIndex - 1) : p[k] # "."
        THEN <<SubSeq(p, 1, dotIndex - 1), SubSeq(p, dotIndex, Len(p))>>
        ELSE <<p, <<>>>>

\* ------------------------------------------------------------ log, trace
L(level, msg) == [level |-> level, msg |-> msg]

Ev(op, val) == [op |-> op, val |-> val]

\* validate_file_path without the os.path.exists test
validate_file_path_NoExists(file_path) ==
    IF fs[file_path] = "dir"
    THEN [ok |-> FALSE, log |-> <<L("ERROR", "not a file")>>]
    ELSE IF ~EndsWithAny(LowerStr(file_path), SUPPORTED_EXTENSIONS)
    THEN [ok |-> FALSE, log |-> <<L("WARNING", "unsupported")>>]
    ELSE [ok |-> TRUE, log |-> <<>>]

\* validate_file_path without the extension test
validate_file_path_NoExtension(file_path) ==
    IF fs[file_path] = "missing"
    THEN [ok |-> FALSE, log |-> <<L("ERROR", "not found")>>]
    ELSE IF fs[file_path] # "file"
    THEN [ok |-> FALSE, log |-> <<L("ERROR", "not a file")>>]
    ELSE [ok |-> TRUE, log |-> <<>>]

\* ---------------------------------------------------- validate_file_path
validate_file_path(file_path) ==
    IF fs[file_path] = "missing"
    THEN [ok |-> FALSE, log |-> <<L("ERROR", "not found")>>]
    ELSE IF fs[file_path] # "file"
    THEN [ok |-> FALSE, log |-> <<L("ERROR", "not a file")>>]
    ELSE IF ~EndsWithAny(LowerStr(file_path), SUPPORTED_EXTENSIONS)
    THEN [ok |-> FALSE, log |-> <<L("WARNING", "unsupported")>>]
    ELSE [ok |-> TRUE, log |-> <<>>]

\* the adapter print_file selects for a path ("none": falls to return False)
SelectAdapter(file_path) ==
    LET ext == LowerStr(Splitext(file_path)[2])
    IN  IF ext \in {<<".", "x", "l", "s", "x">>, <<".", "x", "l", "s">>}
        THEN "print_excel"
        ELSE IF ext \in {<<".", "d", "o", "c", "x">>, <<".", "d", "o", "c">>}
        THEN "print_word"
        ELSE IF ext = <<".", "p", "d", "f">>
        THEN "print_pdf"
        ELSE "none"

\* ------------------------------------------------------------------ Init
Init ==
    /\ platform \in Platforms
    /\ args \in ArgLists
    /\ fs \in [Range(args) -> FileKinds]
    /\ pc = "main"
    /\ i = 0
    /\ adapter = "none"
    /\ open = {}
    /\ page = [width |-> 0, height |-> 0]
    /\ word_orient = 0
    /\ orient = 0
    /\ raising = FALSE
    /\ ret = <<>>
    /\ printer = [Orientation |-> DMORIENT_PORTRAIT, Fields |-> DM_PAPERSIZE]
    /\ trace = <<>>
    /\ log = <<>>
    /\ processed = <<>>

\* ------------------------------------------------------------------ main
\* main without the test for an empty argv
Main_Start_NoEmptyCheck ==
    /\ pc = "main"
    /\ IF platform # "win32"
       THEN /\ log' = log \o <<L("INFO", "start"), L("CRITICAL", "windows only")>>
            /\ pc' = "done"
            /\ i' = i
       ELSE /\ log' = Append(log, L("INFO", "start"))
            /\ pc' = "loop"
            /\ i' = 1
    /\ UNCHANGED <<platform, args, fs, word_orient, adapter, open, page, orient,
                   raising, ret, printer, trace, processed>>

\* main up to the loop: logging, the platform check, the empty-argv check
Main_Start ==
    /\ pc = "main"
    /\ IF platform # "win32"
       THEN /\ log' = log \o <<L("INFO", "start"), L("CRITICAL", "windows only")>>
            /\ pc' = "done"
            /\ i' = i
       ELSE IF args = <<>>
       THEN /\ log' = log \o <<L("INFO", "start"), L("WARNING", "no files")>>
            /\ pc' = "done"
            /\ i' = i
       ELSE /\ log' = Append(log, L("INFO", "start"))
            /\ pc' = "loop"
            /\ i' = 1
    /\ UNCHANGED <<platform, args, fs, word_orient, adapter, open, page, orient, raising, ret,
                   printer, trace, processed>>

\* one turn of the for loop: validate_file_path(file_path), or the end
Main_Loop ==
    /\ pc = "loop"
    /\ IF i > Len(args)
       THEN /\ log' = Append(log, L("INFO", "all done"))
            /\ pc' = "done"
            /\ UNCHANGED <<i, trace, processed>>
       ELSE LET v == validate_file_path(args[i])
            IN  /\ log' = log \o v.log
                /\ processed' = Append(processed, i)
                /\ trace' = <<>>
                /\ IF v.ok
                   THEN pc' = "print_file" /\ i' = i
                   ELSE pc' = "loop" /\ i' = i + 1
    /\ UNCHANGED <<platform, args, fs, word_orient, adapter, open, page, orient, raising, ret,
                   printer>>

\* ------------------------------------------------------------ print_file
PrintFile_Dispatch ==
    /\ pc = "print_file"
    /\ LET a == SelectAdapter(args[i])
       IN  IF a = "none"
           THEN /\ ret' = Append(ret, [idx |-> i, val |-> FALSE])
                /\ pc' = "loop"
                /\ i' = i + 1
                /\ UNCHANGED <<adapter, trace>>
           ELSE /\ adapter' = a
                /\ trace' = Append(trace, Ev(a, 0))
                /\ pc' = a
                /\ UNCHANGED <<ret, i>>
    /\ UNCHANGED <<platform, args, fs, word_orient, open, page, orient, raising, printer, log,
                   processed>>

\* the adapter returned True
PrintFile_Return ==
    /\ pc = "pf_return"
    /\ ret' = Append(ret, [idx |-> i, val |-> TRUE])
    /\ pc' = "loop"
    /\ i' = i + 1
    /\ adapter' = "none"
    /\ UNCHANGED <<platform, args, fs, word_orient, open, page, orient, raising, printer, trace,
                   log, processed>>

\* print_file without the except clause: the exception ends main
PrintFile_Except_Propagates ==
    /\ pc = "pf_except"
    /\ pc' = "done"
    /\ UNCHANGED <<platform, args, fs, word_orient, i, adapter, open, page,
                   orient, raising, ret, printer, trace, log, processed>>

\* except Exception: log and return False
PrintFile_Except ==
    /\ pc = "pf_except"
    /\ log' = Append(log, L("ERROR", "print failed"))
    /\ ret' = Append(ret, [idx |-> i, val |-> FALSE])
    /\ raising' = FALSE
    /\ pc' = "loop"
    /\ i' = i + 1
    /\ adapter' = "none"
    /\ UNCHANGED <<platform, args, fs, word_orient, open, page, orient, printer, trace,
                   processed>>

\* ------------------------------------------------ apply_printer_settings
\* where an exception leaving apply_printer_settings or an adapter's try
\* body lands: the finally of print_excel / print_word, or, from print_pdf
\* (which has no try), the except of print_file
Handler(a) ==
    CASE a = "print_excel" -> "excel_finally"
      [] a = "print_word" -> "word_finally"
      [] OTHER -> "pf_except"

\* the statement after the call of apply_printer_settings in each adapter
AfterSettings(a) ==
    CASE a = "print_excel" -> "excel_printout"
      [] a = "print_word" -> "word_printout"
      [] OTHER -> "pdf_shell"

\* devmode.Fields |= DM_ORIENTATION
SetOrientationField(fields) ==
    IF fields % 2 = DM_ORIENTATION THEN fields ELSE fields + DM_ORIENTATION

\* hPrinter = win32print.OpenPrinter(...), before the try
APS_OpenPrinter ==
    /\ pc = "aps_open"
    /\ \E ok \in BOOLEAN :
         IF ok
         THEN /\ open' = open \cup {"hPrinter"}
              /\ trace' = trace \o <<Ev("apply_printer_settings", orient),
                                     Ev("OpenPrinter", 0)>>
              /\ pc' = "aps_get"
              /\ UNCHANGED raising
         ELSE /\ trace' = trace \o <<Ev("apply_printer_settings", orient),
                                     Ev("OpenPrinterFailed", 0)>>
              /\ raising' = TRUE
              /\ pc' = Handler(adapter)
              /\ UNCHANGED open
    /\ UNCHANGED <<platform, args, fs, word_orient, i, adapter, page, orient, ret, printer,
                   log, processed>>

\* info = win32print.GetPrinter(hPrinter, 2); devmode = info['pDevMode']
APS_GetPrinter ==
    /\ pc = "aps_get"
    /\ \E ok \in BOOLEAN :
         IF ok
         THEN pc' = "aps_set" /\ UNCHANGED log
         ELSE /\ log' = Append(log, L("ERROR", "settings failed"))
              /\ pc' = "aps_close"
    /\ UNCHANGED <<platform, args, fs, word_orient, i, adapter, open, page, orient, raising,
                   ret, printer, trace, processed>>

\* devmode.Orientation = orientation; devmode.Fields |= DM_ORIENTATION;
\* win32print.SetPrinter(hPrinter, 2, info, 0)
APS_SetPrinter ==
    /\ pc = "aps_set"
    /\ \E ok \in BOOLEAN :
         IF ok
         THEN /\ printer' = [Orientation |-> orient,
                             Fields |-> SetOrientationField(printer.Fields)]
              /\ trace' = Append(trace, Ev("SetPrinter", orient))
              /\ log' = Append(log, L("INFO", "settings applied"))
         ELSE /\ log' = Append(log, L("ERROR", "settings failed"))
              /\ UNCHANGED <<printer, trace>>
    /\ pc' = "aps_close"
    /\ UNCHANGED <<platform, args, fs, word_orient, i, adapter, open, page, orient, raising,
                   ret, processed>>

\* finally: win32print.ClosePrinter(hPrinter), then back in the adapter
APS_ClosePrinter ==
    /\ pc = "aps_close"
    /\ open' = open \ {"hPrinter"}
    /\ trace' = Append(trace, Ev("ClosePrinter", 0))
    /\ pc' = AfterSettings(adapter)
    /\ UNCHANGED <<platform, args, fs, word_orient, i, adapter, page, orient, raising, ret,
                   printer, log, processed>>

\* ------------------------------------------------------------- print_pdf
\* the orientation of print_pdf with >= for >
PdfOrientation_SquareIsLandscape(width, height) ==
    IF width >= height THEN DMORIENT_LANDSCAPE ELSE DMORIENT_PORTRAIT

\* is_landscape and the orientation print_pdf derives from it
PdfOrientation(width, height) ==
    IF width > height THEN DMORIENT_LANDSCAPE ELSE DMORIENT_PORTRAIT

\* doc = fitz.open(file_path)
Pdf_Open ==
    /\ pc = "print_pdf"
    /\ \E ok \in BOOLEAN :
         IF ok
         THEN /\ open' = open \cup {"pdfdoc"}
              /\ trace' = Append(trace, Ev("fitz.open", 0))
              /\ pc' = "pdf_page"
              /\ UNCHANGED raising
         ELSE /\ raising' = TRUE
              /\ pc' = "pf_except"
              /\ UNCHANGED <<open, trace>>
    /\ UNCHANGED <<platform, args, fs, word_orient, i, adapter, page, orient, ret, printer,
                   log, processed>>

\* page = doc[0]; page.rect.width > page.rect.height
Pdf_Page ==
    /\ pc = "pdf_page"
    /\ \/ \E w \in 1..MaxDim, h \in 1..MaxDim :
            /\ page' = [width |-> w, height |-> h]
            /\ pc' = "pdf_close"
            /\ UNCHANGED raising
       \/ /\ raising' = TRUE
          /\ pc' = "pf_except"
          /\ UNCHANGED page
    /\ UNCHANGED <<platform, args, fs, word_orient, i, adapter, open, orient, ret, printer,
                   trace, log, processed>>

\* doc.close(); orientation = ...
Pdf_Close ==
    /\ pc = "pdf_close"
    /\ open' = open \ {"pdfdoc"}
    /\ orient' = PdfOrientation(page.width, page.height)
    /\ pc' = "pdf_printer"
    /\ UNCHANGED <<platform, args, fs, word_orient, i, adapter, page, raising, ret, printer,
                   trace, log, processed>>

\* printer_name = win32print.GetDefaultPrinter(), then the call of
\* apply_printer_settings
Pdf_GetDefaultPrinter ==
    /\ pc = "pdf_printer"
    /\ trace' = Append(trace, Ev("GetDefaultPrinter", 0))
    /\ \E ok \in BOOLEAN :
         IF ok
         THEN pc' = "aps_open" /\ UNCHANGED raising
         ELSE pc' = "pf_except" /\ raising' = TRUE
    /\ UNCHANGED <<platform, args, fs, word_orient, i, adapter, open, page, orient, ret,
                   printer, log, processed>>

\* win32api.ShellExecute(0, "print", ...); time.sleep(...); return True
Pdf_ShellExecute ==
    /\ pc = "pdf_shell"
    /\ trace' = Append(trace, Ev("submit", 0))
    /\ log' = Append(log, L("INFO", "printing pdf"))
    /\ \E ok \in BOOLEAN :
         IF ok
         THEN pc' = "pf_return" /\ UNCHANGED raising
         ELSE pc' = "pf_except" /\ raising' = TRUE
    /\ UNCHANGED <<platform, args, fs, word_orient, i, adapter, open, page, orient, ret,
                   printer, processed>>

\* ----------------------------------------------------------- print_excel
\* excel = win32com.client.Dispatch("Excel.Application")
Excel_Dispatch ==
    /\ pc = "print_excel"
    /\ \E ok \in BOOLEAN :
         IF ok
         THEN /\ open' = open \cup {"excel"}
              /\ trace' = Append(trace, Ev("Dispatch", 0))
              /\ pc' = "excel_visible"
              /\ UNCHANGED raising
         ELSE /\ raising' = TRUE
              /\ pc' = "pf_except"
              /\ UNCHANGED <<open, trace>>
    /\ UNCHANGED <<platform, args, fs, word_orient, i, adapter, page, orient, ret, printer,
                   log, processed>>

\* excel.Visible = False, before the try
Excel_Visible ==
    /\ pc = "excel_visible"
    /\ \E ok \in BOOLEAN :
         IF ok
         THEN pc' = "excel_open" /\ UNCHANGED raising
         ELSE pc' = "pf_except" /\ raising' = TRUE
    /\ UNCHANGED <<platform, args, fs, word_orient, i, adapter, open, page, orient, ret,
                   printer, trace, log, processed>>

\* wb = excel.Workbooks.Open(abs_path)
Excel_Open ==
    /\ pc = "excel_open"
    /\ \E ok \in BOOLEAN :
         IF ok
         THEN /\ open' = open \cup {"wb"}
              /\ pc' = "excel_orient"
              /\ UNCHANGED raising
         ELSE /\ raising' = TRUE
              /\ pc' = "excel_finally"
              /\ UNCHANGED open
    /\ UNCHANGED <<platform, args, fs, word_orient, i, adapter, page, orient, ret, printer,
                   trace, log, processed>>

\* ws = wb.ActiveSheet; orient = ws.PageSetup.Orientation
Excel_Orient ==
    /\ pc = "excel_orient"
    /\ \/ \E o \in ExcelOrientValues :
            /\ orient' = o
            /\ pc' = "excel_printer"
            /\ UNCHANGED raising
       \/ /\ raising' = TRUE
          /\ pc' = "excel_finally"
          /\ UNCHANGED orient
    /\ UNCHANGED <<platform, args, fs, word_orient, i, adapter, open, page, ret, printer,
                   trace, log, processed>>

\* printer_name = win32print.GetDefaultPrinter(), then the call of
\* apply_printer_settings
Excel_GetDefaultPrinter ==
    /\ pc = "excel_printer"
    /\ trace' = Append(trace, Ev("GetDefaultPrinter", 0))
    /\ \E ok \in BOOLEAN :
         IF ok
         THEN pc' = "aps_open" /\ UNCHANGED raising
         ELSE pc' = "excel_finally" /\ raising' = TRUE
    /\ UNCHANGED <<platform, args, fs, word_orient, i, adapter, open, page, orient, ret,
                   printer, log, processed>>

\* ws.PrintOut(); return True
Excel_PrintOut ==
    /\ pc = "excel_printout"
    /\ trace' = Append(trace, Ev("submit", 0))
    /\ log' = Append(log, L("INFO", "printing excel"))
    /\ \E ok \in BOOLEAN : raising' = ~ok
    /\ pc' = "excel_finally"
    /\ UNCHANGED <<platform, args, fs, word_orient, i, adapter, open, page, orient, ret,
                   printer, processed>>

\* finally: if wb: wb.Close(False); excel.Quit(); then the return
\* value or the exception goes to print_file
Excel_Finally ==
    /\ pc = "excel_finally"
    /\ open' = open \ {"wb", "excel"}
    /\ pc' = IF raising THEN "pf_except" ELSE "pf_return"
    /\ UNCHANGED <<platform, args, fs, word_orient, i, adapter, page, orient, raising, ret,
                   printer, trace, log, processed>>

\* ------------------------------------------------------------ print_word
\* the mapping of print_word passing Word's value on when it is not 0
WordPrinterOrient_PassThrough(v) ==
    IF v = 0 THEN DMORIENT_PORTRAIT ELSE v

\* printer_orient = DMORIENT_LANDSCAPE if word_orient == 1 else DMORIENT_PORTRAIT
WordPrinterOrient(v) ==
    IF v = 1 THEN DMORIENT_LANDSCAPE ELSE DMORIENT_PORTRAIT

\* word = win32com.client.Dispatch("Word.Application")
Word_Dispatch ==
    /\ pc = "print_word"
    /\ \E ok \in BOOLEAN :
         IF ok
         THEN /\ open' = open \cup {"word"}
              /\ trace' = Append(trace, Ev("Dispatch", 0))
              /\ pc' = "word_visible"
              /\ UNCHANGED raising
         ELSE /\ raising' = TRUE
              /\ pc' = "pf_except"
              /\ UNCHANGED <<open, trace>>
    /\ UNCHANGED <<platform, args, fs, word_orient, i, adapter, page, orient, ret, printer,
                   log, processed>>

\* word.Visible = False, before the try
Word_Visible ==
    /\ pc = "word_visible"
    /\ \E ok \in BOOLEAN :
         IF ok
         THEN pc' = "word_open" /\ UNCHANGED raising
         ELSE pc' = "pf_except" /\ raising' = TRUE
    /\ UNCHANGED <<platform, args, fs, word_orient, i, adapter, open, page, orient, ret,
                   printer, trace, log, processed>>

\* doc = word.Documents.Open(abs_path)
Word_Open ==
    /\ pc = "word_open"
    /\ \E ok \in BOOLEAN :
         IF ok
         THEN /\ open' = open \cup {"doc"}
              /\ pc' = "word_orient"
              /\ UNCHANGED raising
         ELSE /\ raising' = TRUE
              /\ pc' = "word_finally"
              /\ UNCHANGED open
    /\ UNCHANGED <<platform, args, fs, word_orient, i, adapter, page, orient, ret, printer,
                   trace, log, processed>>

\* word_orient = doc.PageSetup.Orientation; printer_orient = ...
Word_Orient ==
    /\ pc = "word_orient"
    /\ \/ \E o \in WordOrientValues :
            /\ word_orient' = o
            /\ orient' = WordPrinterOrient(o)
            /\ pc' = "word_printer"
            /\ UNCHANGED raising
       \/ /\ raising' = TRUE
          /\ pc' = "word_finally"
          /\ UNCHANGED <<word_orient, orient>>
    /\ UNCHANGED <<platform, args, fs, i, adapter, open, page, ret, printer,
                   trace, log, processed>>

\* printer_name = win32print.GetDefaultPrinter(), then the call of
\* apply_printer_settings
Word_GetDefaultPrinter ==
    /\ pc = "word_printer"
    /\ trace' = Append(trace, Ev("GetDefaultPrinter", 0))
    /\ \E ok \in BOOLEAN :
         IF ok
         THEN pc' = "aps_open" /\ UNCHANGED raising
         ELSE pc' = "word_finally" /\ raising' = TRUE
    /\ UNCHANGED <<platform, args, fs, word_orient, i, adapter, open, page, orient, ret,
                   printer, log, processed>>

\* doc.PrintOut(); return True
Word_PrintOut ==
    /\ pc = "word_printout"
    /\ trace' = Append(trace, Ev("submit", 0))
    /\ log' = Append(log, L("INFO", "printing word"))
    /\ \E ok \in BOOLEAN : raising' = ~ok
    /\ pc' = "word_finally"
    /\ UNCHANGED <<platform, args, fs, word_orient, i, adapter, open, page, orient, ret,
                   printer, processed>>

\* finally: if doc: doc.Close(False); word.Quit(); then the return
\* value or the exception goes to print_file
Word_Finally ==
    /\ pc = "word_finally"
    /\ open' = open \ {"doc", "word"}
    /\ pc' = IF raising THEN "pf_except" ELSE "pf_return"
    /\ UNCHANGED <<platform, args, fs, word_orient, i, adapter, page, orient, raising, ret,
                   printer, trace, log, processed>>

\* ------------------------------------------------------------------ Next
Next ==
    \/ Main_Start
    \/ Main_Loop
    \/ PrintFile_Dispatch
    \/ PrintFile_Return
    \/ PrintFile_Except
    \/ APS_OpenPrinter
    \/ APS_GetPrinter
    \/ APS_SetPrinter
    \/ APS_ClosePrinter
    \/ Pdf_Open
    \/ Pdf_Page
    \/ Pdf_Close
    \/ Pdf_GetDefaultPrinter
    \/ Pdf_ShellExecute
    \/ Excel_Dispatch
    \/ Excel_Visible
    \/ Excel_Open
    \/ Excel_Orient
    \/ Excel_GetDefaultPrinter
    \/ Excel_PrintOut
    \/ Excel_Finally
    \/ Word_Dispatch
    \/ Word_Visible
    \/ Word_Open
    \/ Word_Orient
    \/ Word_GetDefaultPrinter
    \/ Word_PrintOut
    \/ Word_Finally

Spec == Init /\ [][Next]_vars

\* ------------------------------------------------------------ the report
\* main keeps no list of succeeded or failed paths: the values of
\* validate_file_path and print_file are dropped and the last record logged
\* is the fixed completion message
RunReport == [succeeded |-> <<>>, failed |-> <<>>]

\* ------------------------------------------------------------ properties
Adapters == {"print_excel", "print_word", "print_pdf"}

\* the argv position the trace belongs to; 0 before the first path
Cur == IF processed = <<>> THEN 0 ELSE processed[Len(processed)]

Has(op) == \E k \in 1..Len(trace) : trace[k].op = op

\* the adapter has returned or raised and print_file has not yet returned
AdapterLeft == pc \in {"pf_return", "pf_except"}

\* print_file returned for argv position k
Returned(k) == \E n \in 1..Len(ret) : ret[n].idx = k

ReturnedTrue(k) == \E n \in 1..Len(ret) : ret[n].idx = k /\ ret[n].val

\* the part of a path from its last dot on; empty when it has no dot
Extension(p) ==
    IF RFind(p, ".") = 0 THEN <<>> ELSE SubSeq(p, RFind(p, "."), Len(p))

\* the argv paths at the positions 1..n that are in S, in argv order
RECURSIVE Pick(_, _)
Pick(n, S) ==
    IF n = 0 THEN <<>>
    ELSE IF n \in S THEN Append(Pick(n - 1, S), args[n])
    ELSE Pick(n - 1, S)

\* C1: in every adapter, when OpenPrinter raised in apply_printer_settings
\* the adapter has still attempted to submit the print job by the time it
\* returns or raises.
C1_SubmitsAfterOpenPrinterFailure ==
    (AdapterLeft /\ Has("OpenPrinterFailed")) => Has("submit")

\* C2: when an adapter returns or raises, whatever the outcome of its steps,
\* every resource it opened (application, document, PDF reader, printer
\* handle) has been released.
C2_ResourcesReleased == AdapterLeft => open = {}

\* C3: at the end of a run the report's succeeded and failed sequences hold
\* each input path once, succeeded holding exactly the paths that were
\* validated and whose adapter returned success, both in argv order.
C3_ReportPartitionsArgs ==
    (pc = "done" /\ platform = "win32") =>
        /\ RunReport.succeeded =
               Pick(Len(args), {k \in 1..Len(args) : ReturnedTrue(k)})
        /\ RunReport.failed =
               Pick(Len(args), {k \in 1..Len(args) : ~ReturnedTrue(k)})

\* C4: for a path that does not exist, validate_file_path returns False:
\* print_file is never called for it, and while it is the path being
\* processed no adapter is invoked and no handle is opened.
C4_MissingPathNeverPrinted ==
    \A k \in 1..Len(args) :
        fs[args[k]] = "missing" =>
            /\ ~Returned(k)
            /\ Cur = k => (pc \in {"loop", "done"} /\ trace = <<>>)

C4_Witness ==
    /\ pc = "done"
    /\ Len(args) = 2
    /\ fs[args[1]] = "missing"
    /\ processed = <<1, 2>>
    /\ ReturnedTrue(2)

\* C5: an exception of an adapter ends in print_file returning False for
\* that path, print_file is called at most once per path, and main calls
\* validate_file_path for every path exactly once in argv order.
C5_ExceptionSwallowedRunContinues ==
    /\ [][pc = "pf_except" =>
            /\ pc' = "loop"
            /\ i' = i + 1
            /\ ret' = Append(ret, [idx |-> i, val |-> FALSE])]_vars
    /\ [](\A k \in 1..Len(processed) : processed[k] = k)
    /\ [](\A m, n \in 1..Len(ret) : ret[m].idx = ret[n].idx => m = n)
    /\ []((pc = "done" /\ platform = "win32") => Len(processed) = Len(args))

C5_Witness ==
    /\ pc = "done"
    /\ Len(args) = 2
    /\ \E n \in 1..Len(log) : log[n] = L("ERROR", "print failed")
    /\ ret = <<[idx |-> 1, val |-> FALSE], [idx |-> 2, val |-> TRUE]>>

\* C6: in print_pdf the orientation passed to apply_printer_settings is
\* Landscape when the first page is wider than high and Portrait otherwise
\* (a square page included), and a print job is submitted only after that
\* call.
C6_PdfOrientationBeforeSubmit ==
    (trace # <<>> /\ trace[1].op = "print_pdf") =>
        \A k \in 1..Len(trace) :
            /\ trace[k].op = "apply_printer_settings" =>
                   /\ page.width > page.height => trace[k].val = DMORIENT_LANDSCAPE
                   /\ page.width <= page.height => trace[k].val = DMORIENT_PORTRAIT
            /\ trace[k].op = "submit" =>
                   \E j \in 1..(k - 1) : trace[j].op = "apply_printer_settings"

C6_Witness ==
    /\ trace # <<>>
    /\ trace[1].op = "print_pdf"
    /\ page.width > page.height
    /\ Has("submit")
    /\ printer.Orientation = DMORIENT_LANDSCAPE

\* C7: for a path whose extension (the part from its last dot on, compared in
\* lower case) is not a supported one, validate_file_path returns False
\* whatever the path is on disk: print_file is never called for it and
\* nothing is invoked while it is the path being processed.
C7_UnsupportedExtensionRejected ==
    \A k \in 1..Len(args) :
        LowerStr(Extension(args[k])) \notin Range(SUPPORTED_EXTENSIONS) =>
            /\ ~Returned(k)
            /\ Cur = k => (pc \in {"loop", "done"} /\ trace = <<>>)

C7_Witness ==
    /\ Cur = 1
    /\ pc = "loop"
    /\ i = 2
    /\ fs[args[1]] = "file"
    /\ LowerStr(Extension(args[1])) \notin Range(SUPPORTED_EXTENSIONS)

\* C8: on Windows with an empty argv, main logs the warning and returns;
\* on any platform an empty argv leads to no external call, no open
\* resource, no device-mode write and no call of print_file.
C8_EmptyArgsNoPrinterInteraction ==
    args = <<>> =>
        /\ pc \in {"main", "done"}
        /\ trace = <<>>
        /\ open = {}
        /\ ret = <<>>
        /\ processed = <<>>
        /\ printer = [Orientation |-> DMORIENT_PORTRAIT, Fields |-> DM_PAPERSIZE]
        /\ (pc = "done" /\ platform = "win32") =>
               log = <<L("INFO", "start"), L("WARNING", "no files")>>

C8_Witness == args = <<>> /\ pc = "done" /\ platform = "win32"

\* C9: in print_word the value passed to apply_printer_settings is
\* DMORIENT_LANDSCAPE when the page setup's orientation is 1 and
\* DMORIENT_PORTRAIT for every other value.
C9_WordOrientationMapped ==
    (trace # <<>> /\ trace[1].op = "print_word") =>
        \A k \in 1..Len(trace) :
            trace[k].op = "apply_printer_settings" =>
                /\ word_orient = 1 => trace[k].val = DMORIENT_LANDSCAPE
                /\ word_orient # 1 => trace[k].val = DMORIENT_PORTRAIT

C9_Witness ==
    /\ trace # <<>>
    /\ trace[1].op = "print_word"
    /\ word_orient = 1
    /\ \E k \in 1..Len(trace) :
           trace[k] = Ev("apply_printer_settings", DMORIENT_LANDSCAPE)

\* C10: for every path validate_file_path accepts, print_file invokes one
\* of the three adapters: once print_file has returned for the path being
\* processed, the trace of that path starts with an adapter's invocation.
C10_ValidatedPathIsDispatched ==
    (Cur > 0 /\ Returned(Cur)) =>
        (trace # <<>> /\ trace[1].op \in Adapters)

====
